---- MODULE Spec2Model ----
(***************************************************************************)
(* A model of the log4rs appender that ships log records to Logstash       *)
(* (log4rs-logstash/src/appender.rs) and of the record serializer          *)
(* (logstash-rs/src/event.rs).                                             *)
(*                                                                         *)
(* Two specifications share the variables:                                 *)
(*   Spec     the builder, the appender's append and flush called from     *)
(*            several threads, the mutex around the sender, the sender;    *)
(*   SerSpec  LogStashRecord construction and its serde::Serialize impl.   *)
(***************************************************************************)
EXTENDS Integers, Sequences, FiniteSets, TLC

VARIABLES
    builder,     \* AppenderBuilder: level, buffer_size, buffer_lifetime
    phase,       \* "building" until build() has returned the Appender
    sender,      \* the BufferedTCPSender inside Arc<Mutex<..>>
    wire,        \* batches the remote endpoint has received, in order
    lockHolder,  \* thread holding the MutexGuard, 0 when the mutex is free
    poisoned,    \* the mutex's poison flag
    pc,          \* each thread's position in append
    cur,         \* each thread's log::Record (the call's input)
    event,       \* each thread's Event under construction / being sent
    batch,       \* each thread's drained batch awaiting the network write
    sendRes,     \* what sender.send returned in the thread's last append
    ret,         \* what the thread's last append returned
    calls,       \* number of append calls started
    appended,    \* message ids in the order they entered the buffer
    flushes,     \* number of threshold-triggered flushes of the sender
    flushCalls,  \* number of explicit Appender::flush calls
    bufferedSince, \* when the oldest event now in the buffer entered it
    now,         \* clock, in seconds
    rec,         \* serializer: the LogStashRecord
    out          \* serializer: the emitted map entries, <<>> before serialize

appVars == <<builder, phase, sender, wire, lockHolder, poisoned, pc, cur, event,
             batch, sendRes, ret, calls, appended, flushes, flushCalls, bufferedSince, now>>
serVars == <<rec, out>>
vars == <<builder, phase, sender, wire, lockHolder, poisoned, pc, cur, event,
          batch, sendRes, ret, calls, appended, flushes, flushCalls, bufferedSince, now, rec, out>>

----------------------------------------------------------------------------
(* Bounds of the model *)

NumThreads == 2
MaxAppends == 3
MaxTime == 1
MaxFlushCalls == 1
MaxFields == 2

Threads == 1..NumThreads

----------------------------------------------------------------------------
(* Option<T>: None is the empty sequence, Some(x) the one-element sequence *)

None == <<>>
Some(x) == <<x>>
IsSome(o) == Len(o) = 1
Unwrap(o) == o[1]

(* serde_json::Value, tagged so that values of different kinds compare *)
JNull == <<"null">>
JStr(s) == <<"str", s>>
JNum(n) == <<"num", n>>

(* log::Level, most severe first *)
Level == {"Error", "Warn", "Info", "Debug", "Trace"}

(* the enum's discriminant: Error = 1 is the most severe, Trace = 5 the least *)
LevelRank(l) ==
    CASE l = "Error" -> 1
      [] l = "Warn"  -> 2
      [] l = "Info"  -> 3
      [] l = "Debug" -> 4
      [] l = "Trace" -> 5

(* Level::as_str *)
LevelStr(l) ==
    CASE l = "Error" -> "ERROR"
      [] l = "Warn"  -> "WARN"
      [] l = "Info"  -> "INFO"
      [] l = "Debug" -> "DEBUG"
      [] l = "Trace" -> "TRACE"

----------------------------------------------------------------------------
(* event.rs: TimePrecision, LogStashRecord and its Serialize impl *)

TimePrecision == {"Secs", "Millis", "Micros", "Nanos"}

(* From<TimePrecision> for SecondsFormat: the number of subsecond digits *)
SecondsFormat(p) ==
    CASE p = "Secs"   -> 0
      [] p = "Millis" -> 3
      [] p = "Micros" -> 6
      [] p = "Nanos"  -> 9

Pow10(n) == CASE n = 0 -> 1 [] n = 3 -> 1000 [] n = 6 -> 1000000 [] n = 9 -> 1000000000

(* SerializableDateTime::serialize: the timestamp <<secs, nanos>> rendered  *)
(* with the precision's digits, the rest of the nanoseconds cut off.        *)
SerializableDateTime(ts, p) ==
    <<"ts", ts[1], ts[2] \div Pow10(9 - SecondsFormat(p)), SecondsFormat(p)>>

(* SerializableLevel::serialize *)
SerializableLevel(l) == JStr(LevelStr(l))

(* Default for LogStashRecord, with the timestamp of LogStashRecord::new *)
DefaultRecord(ts) ==
    [ timestamp |-> ts, module |-> None, file |-> None, line |-> None,
      level |-> "Warn", target |-> "", time_precision |-> "Millis",
      fields |-> <<>> ]

(* fields: HashMap<String, Value>, a sequence of <<key, value>> with unique *)
(* keys; the sequence is the map's iteration order, which insert may change *)
FieldKeys(fs) == { fs[i][1] : i \in 1..Len(fs) }

MapRemove(fs, k) == SelectSeq(fs, LAMBDA e : e[1] # k)

(* every place the new entry can take in the iteration order *)
MapInsert(fs, k, v) ==
    LET rest == MapRemove(fs, k)
    IN  { SubSeq(rest, 1, i) \o <<(<<k, v>>)>> \o SubSeq(rest, i + 1, Len(rest)) :
            i \in 0..Len(rest) }

(* a serializer that writes an unset optional field as null *)
FixedEntriesWithNulls(r) ==
    <<(<<"@timestamp", SerializableDateTime(r.timestamp, r.time_precision)>>)>>
    \o <<(<<"module", IF IsSome(r.module) THEN JStr(Unwrap(r.module)) ELSE JNull>>)>>
    \o <<(<<"file", IF IsSome(r.file) THEN JStr(Unwrap(r.file)) ELSE JNull>>)>>
    \o <<(<<"line", IF IsSome(r.line) THEN JNum(Unwrap(r.line)) ELSE JNull>>)>>
    \o <<(<<"level", SerializableLevel(r.level)>>)>>
    \o <<(<<"target", JStr(r.target)>>)>>

(* the entries serialize emits before the loop over fields *)
FixedEntries(r) ==
    <<(<<"@timestamp", SerializableDateTime(r.timestamp, r.time_precision)>>)>>
    \o (IF IsSome(r.module) THEN <<(<<"module", JStr(Unwrap(r.module))>>)>> ELSE <<>>)
    \o (IF IsSome(r.file) THEN <<(<<"file", JStr(Unwrap(r.file))>>)>> ELSE <<>>)
    \o (IF IsSome(r.line) THEN <<(<<"line", JNum(Unwrap(r.line))>>)>> ELSE <<>>)
    \o <<(<<"level", SerializableLevel(r.level)>>)>>
    \o <<(<<"target", JStr(r.target)>>)>>

(* a serializer that loops over fields before it writes level and target *)
SerializeFieldsBeforeLevel(r) ==
    LET fixed == FixedEntries(r)
        n == Len(fixed)
    IN  SubSeq(fixed, 1, n - 2) \o r.fields \o SubSeq(fixed, n - 1, n)

(* impl serde::Serialize for LogStashRecord *)
SerializeRecord(r) == FixedEntries(r) \o r.fields

(* LogStashRecord::add_data: insert, the last write of a key wins *)
add_data(r, k, v) == { [r EXCEPT !.fields = fs] : fs \in MapInsert(r.fields, k, v) }

(* LogStashRecord::add_metadata *)
add_metadata(r, k, v) ==
    { [r EXCEPT !.fields = fs] : fs \in MapInsert(r.fields, "@metadata." \o k, v) }

(* LogStashRecord::with_time_precision *)
with_time_precision(r, p) == [r EXCEPT !.time_precision = p]

(* LogStashRecord::from_record, for the log::Record lr at time ts *)
from_record(lr, ts) ==
    LET e == [ DefaultRecord(ts) EXCEPT
                 !.module = lr.module_path, !.file = lr.file, !.line = lr.line,
                 !.level = lr.level, !.target = lr.target,
                 !.time_precision = "Millis" ]
    IN  add_data(e, "message", JStr(lr.args))

----------------------------------------------------------------------------
(* appender.rs *)

(* AppenderBuilder::default *)
DefaultBufferSize == 1024
DefaultBufferLifetime == 1

DefaultBuilder ==
    [ level |-> None, buffer_size |-> Some(DefaultBufferSize),
      buffer_lifetime |-> Some(DefaultBufferLifetime) ]

(* the log::Record values the host logging facade hands to append *)
(* level and call site; the rendered message is the call's number as text *)
CallSites ==
    { [level |-> "Error", module_path |-> None, file |-> None, line |-> None],
      [level |-> "Debug", module_path |-> Some("app::db"), file |-> None, line |-> None],
      [level |-> "Info", module_path |-> Some("app::db"), file |-> Some("db.rs"),
       line |-> Some(7)] }

LogRecord(site, msg) ==
    [ level |-> site.level, target |-> "db", module_path |-> site.module_path,
      file |-> site.file, line |-> site.line, args |-> ToString(msg) ]

NoRecord ==
    LogRecord([level |-> "Error", module_path |-> None, file |-> None, line |-> None], 0)

(* logstash_rs::Event as append uses it: a timestamp and a field map *)
(* Event::new_with_time_now *)
new_with_time_now(ts) == [ timestamp |-> ts, fields |-> <<>> ]

(* Event::with_field *)
with_field(e, k, v) == [e EXCEPT !.fields = (k :> v) @@ @]

NoEvent == new_with_time_now(0)

(* append, up to the lock: the Event built from the log::Record *)
BuildEvent(r, ts) ==
    LET e0 == new_with_time_now(ts)
        e1 == IF IsSome(r.module_path)
              THEN with_field(e0, "module_path", JStr(Unwrap(r.module_path))) ELSE e0
        e2 == IF IsSome(r.file) THEN with_field(e1, "file", JStr(Unwrap(r.file))) ELSE e1
        e3 == IF IsSome(r.line) THEN with_field(e2, "line", JNum(Unwrap(r.line))) ELSE e2
    IN  with_field(e3, "message", JStr(r.args))

(* BufferedTCPSender::new(TcpSender::new(host, port), buffer_size) *)
NewSender(buffer_size) ==
    [ buffer_size |-> buffer_size, buffer |-> <<>>, connected |-> FALSE ]

(* the buffer_size threshold: None flushes on every record *)
ShouldFlush(s) ==
    IF IsSome(s.buffer_size) THEN Len(s.buffer) >= Unwrap(s.buffer_size) ELSE TRUE

(* a build that leaves the sender at the default buffer_size *)
BuildSenderDefaultSize(b) == NewSender(DefaultBuilder.buffer_size)

(* AppenderBuilder::build: the sender gets hostname, port and buffer_size, *)
(* and nothing else of the builder                                        *)
BuildSender(b) == NewSender(b.buffer_size)

(* a lock that does not exclude: the sender shared without the mutex *)
LockNeverBlocks == TRUE

(* self.sender.lock(): blocks until no thread holds the guard *)
LockAvailable == lockHolder = 0

(* an append that drops send's error instead of returning it *)
AppendResultSwallowed(sr) == "Ok"

(* sender.send(&event)?; Ok(()) : append's result from send's result *)
AppendResult(sr) == IF sr = "Ok" THEN "Ok" ELSE "Err(send)"

(* a flush that drains the buffer *)
AppenderFlushDrains(s) == [s EXCEPT !.buffer = <<>>]

(* Appender::flush, the empty body: what it does to the sender *)
AppenderFlush(s) == s

----------------------------------------------------------------------------
(* Spec: the builder, then append and flush from concurrent threads *)

(* the state before the builder is used *)
AppInit ==
    /\ builder = DefaultBuilder
    /\ phase = "building"
    /\ sender = NewSender(None)
    /\ wire = <<>>
    /\ lockHolder = 0
    /\ poisoned = FALSE
    /\ pc = [t \in Threads |-> "idle"]
    /\ cur = [t \in Threads |-> NoRecord]
    /\ event = [t \in Threads |-> NoEvent]
    /\ batch = [t \in Threads |-> <<>>]
    /\ sendRes = [t \in Threads |-> "none"]
    /\ ret = [t \in Threads |-> "none"]
    /\ calls = 0
    /\ appended = <<>>
    /\ flushes = 0
    /\ flushCalls = 0
    /\ bufferedSince = 0
    /\ now = 0

Init ==
    /\ AppInit
    /\ rec = DefaultRecord(<<0, 0>>)
    /\ out = <<>>

afterBuilder == <<sender, wire, lockHolder, poisoned, pc, cur, event, batch,
                  sendRes, ret, calls, appended, flushes, flushCalls, bufferedSince, now, rec, out>>

(* AppenderBuilder::with_level *)
with_level(l) ==
    /\ phase = "building"
    /\ builder' = [builder EXCEPT !.level = l]
    /\ UNCHANGED <<phase, afterBuilder>>

(* AppenderBuilder::with_buffer_size *)
with_buffer_size(n) ==
    /\ phase = "building"
    /\ builder' = [builder EXCEPT !.buffer_size = n]
    /\ UNCHANGED <<phase, afterBuilder>>

(* AppenderBuilder::with_buffer_lifetime *)
with_buffer_lifetime(d) ==
    /\ phase = "building"
    /\ builder' = [builder EXCEPT !.buffer_lifetime = d]
    /\ UNCHANGED <<phase, afterBuilder>>

(* AppenderBuilder::build *)
build ==
    /\ phase = "building"
    /\ phase' = "built"
    /\ sender' = BuildSender(builder)
    /\ UNCHANGED <<builder, wire, lockHolder, poisoned, pc, cur, event, batch,
                   sendRes, ret, calls, appended, flushes, flushCalls, bufferedSince, now, rec, out>>

(* append, lines 117-128: the call arrives and the Event is built *)
AppendBegin(t, site) ==
    /\ phase = "built"
    /\ pc[t] = "idle"
    /\ calls < MaxAppends
    /\ calls' = calls + 1
    /\ cur' = [cur EXCEPT ![t] = LogRecord(site, calls + 1)]
    /\ event' = [event EXCEPT ![t] = BuildEvent(LogRecord(site, calls + 1), now)]
    /\ sendRes' = [sendRes EXCEPT ![t] = "none"]
    /\ ret' = [ret EXCEPT ![t] = "none"]
    /\ pc' = [pc EXCEPT ![t] = "lock"]
    /\ UNCHANGED <<builder, phase, sender, wire, lockHolder, poisoned, batch,
                   appended, flushes, flushCalls, bufferedSince, now, rec, out>>

(* append, lines 129-132: lock(); a poisoned mutex makes append return Err *)
Lock(t) ==
    /\ pc[t] = "lock"
    /\ LockAvailable
    /\ IF poisoned
       THEN /\ ret' = [ret EXCEPT ![t] = "Err(Mutex lock failed)"]
            /\ pc' = [pc EXCEPT ![t] = "idle"]
            /\ cur' = [cur EXCEPT ![t] = NoRecord]
            /\ event' = [event EXCEPT ![t] = NoEvent]
            /\ UNCHANGED lockHolder
       ELSE /\ lockHolder' = t
            /\ pc' = [pc EXCEPT ![t] = "send"]
            /\ UNCHANGED <<ret, cur, event>>
    /\ UNCHANGED <<builder, phase, sender, wire, poisoned, batch, sendRes, calls,
                   appended, flushes, flushCalls, bufferedSince, now, rec, out>>

(* append, line 133: eprintln! panics when stderr cannot be written; the  *)
(* guard is dropped while unwinding, which poisons the mutex              *)
StderrPanic(t) ==
    /\ pc[t] = "send"
    /\ pc' = [pc EXCEPT ![t] = "panicked"]
    /\ poisoned' = TRUE
    /\ lockHolder' = 0
    /\ cur' = [cur EXCEPT ![t] = NoRecord]
    /\ event' = [event EXCEPT ![t] = NoEvent]
    /\ UNCHANGED <<builder, phase, sender, wire, batch, sendRes, ret, calls,
                   appended, flushes, flushCalls, bufferedSince, now, rec, out>>

(* append returns: the guard is dropped and the thread is idle again *)
Return(t, sr) ==
    /\ sendRes' = [sendRes EXCEPT ![t] = sr]
    /\ ret' = [ret EXCEPT ![t] = AppendResult(sr)]
    /\ lockHolder' = 0
    /\ pc' = [pc EXCEPT ![t] = "idle"]
    /\ cur' = [cur EXCEPT ![t] = NoRecord]
    /\ event' = [event EXCEPT ![t] = NoEvent]

(* sender.send, first half: the event joins the buffer; at the threshold   *)
(* the whole buffer is drained into one batch                              *)
SendPush(t) ==
    /\ pc[t] = "send"
    /\ appended' = Append(appended, event[t].fields["message"][2])
    /\ LET pushed == [sender EXCEPT !.buffer = Append(@, event[t])]
       IN  IF ShouldFlush(pushed)
           THEN /\ sender' = [pushed EXCEPT !.buffer = <<>>]
                /\ batch' = [batch EXCEPT ![t] = pushed.buffer]
                /\ flushes' = flushes + 1
                /\ bufferedSince' = 0
                /\ pc' = [pc EXCEPT ![t] = "write"]
                /\ UNCHANGED <<lockHolder, sendRes, ret, cur, event>>
           ELSE /\ sender' = pushed
                /\ bufferedSince' = IF sender.buffer = <<>> THEN now ELSE bufferedSince
                /\ Return(t, "Ok")
                /\ UNCHANGED <<batch, flushes>>
    /\ UNCHANGED <<builder, phase, wire, poisoned, calls, flushCalls, now, rec, out>>

(* sender.send, second half: the batch is written to the TCP stream; a     *)
(* failed connect or write drops the batch and the connection              *)
Write(t, ok) ==
    /\ pc[t] = "write"
    /\ IF ok
       THEN /\ wire' = Append(wire, batch[t])
            /\ sender' = [sender EXCEPT !.connected = TRUE]
            /\ Return(t, "Ok")
       ELSE /\ sender' = [sender EXCEPT !.connected = FALSE]
            /\ Return(t, "Err")
            /\ UNCHANGED wire
    /\ batch' = [batch EXCEPT ![t] = <<>>]
    /\ UNCHANGED <<builder, phase, poisoned, calls, appended, flushes, flushCalls,
                   bufferedSince, now, rec, out>>

(* Appender::flush *)
flush ==
    /\ phase = "built"
    /\ flushCalls < MaxFlushCalls
    /\ flushCalls' = flushCalls + 1
    /\ sender' = AppenderFlush(sender)
    /\ UNCHANGED <<builder, phase, wire, lockHolder, poisoned, pc, cur, event, batch,
                   sendRes, ret, calls, appended, flushes, bufferedSince, now, rec, out>>

(* a second passes *)
Tick ==
    /\ now < MaxTime
    /\ now' = now + 1
    /\ UNCHANGED <<builder, phase, sender, wire, lockHolder, poisoned, pc, cur, event,
                   batch, sendRes, ret, calls, appended, flushes, flushCalls, bufferedSince, rec, out>>

LevelChoices == {None, Some("Error")}
SizeChoices == {None, Some(1), Some(2)}
LifetimeChoices == {None, Some(DefaultBufferLifetime)}

(* the steps of append and flush on a built Appender *)
AppenderStep ==
    \/ \E t \in Threads, site \in CallSites : AppendBegin(t, site)
    \/ \E t \in Threads : Lock(t)
    \/ \E t \in Threads : StderrPanic(t)
    \/ \E t \in Threads : SendPush(t)
    \/ \E t \in Threads, ok \in BOOLEAN : Write(t, ok)
    \/ flush

Next ==
    \/ \E l \in LevelChoices : with_level(l)
    \/ \E n \in SizeChoices : with_buffer_size(n)
    \/ \E d \in LifetimeChoices : with_buffer_lifetime(d)
    \/ build
    \/ AppenderStep
    \/ Tick

Spec == Init /\ [][Next]_vars

(* threads that can take a step do, and time passes *)
FairSpec == Spec /\ WF_vars(Next)

(* the buffered pipeline alone: the builder's buffer_size, build, append   *)
(* and flush, with the clock and the builder's other options left at rest  *)
PipelineNext ==
    \/ \E n \in SizeChoices : with_buffer_size(n)
    \/ build
    \/ AppenderStep

PipelineSpec == Init /\ [][PipelineNext]_vars

----------------------------------------------------------------------------
(* SerSpec: a LogStashRecord is built through its public fields and        *)
(* setters, then serialized                                                *)

OptStrings(x) == {None, Some(x)}
DataKeys == {"message", "module", "line"}
MetadataKeys == {"beat"}
Values == {JStr("x"), JNull}
SerTime == <<5, 123456789>>

SerRecords ==
    { [ DefaultRecord(SerTime) EXCEPT
          !.module = m, !.file = f, !.line = n, !.level = l ] :
        m \in OptStrings("app::db"), f \in OptStrings("db.rs"),
        n \in {None, Some(7)}, l \in {"Warn", "Error"} }

SerInit ==
    /\ AppInit
    /\ rec \in SerRecords
    /\ out = <<>>

(* there is room for the key in the bounded map *)
Room(k) == k \in FieldKeys(rec.fields) \/ Len(rec.fields) < MaxFields

SerAddData(k, v) ==
    /\ Room(k)
    /\ rec' \in add_data(rec, k, v)
    /\ out' = <<>>
    /\ UNCHANGED appVars

SerAddMetadata(k, v) ==
    /\ Room("@metadata." \o k)
    /\ rec' \in add_metadata(rec, k, v)
    /\ out' = <<>>
    /\ UNCHANGED appVars

SerWithTimePrecision(p) ==
    /\ rec' = with_time_precision(rec, p)
    /\ rec' # rec
    /\ out' = <<>>
    /\ UNCHANGED appVars

SerFromRecord(site) ==
    /\ rec' \in from_record(LogRecord(site, 1), SerTime)
    /\ out' = <<>>
    /\ UNCHANGED appVars

Serialize ==
    /\ out = <<>>
    /\ out' = SerializeRecord(rec)
    /\ UNCHANGED <<rec, appVars>>

SerNext ==
    \/ \E k \in DataKeys, v \in Values : SerAddData(k, v)
    \/ \E k \in MetadataKeys, v \in Values : SerAddMetadata(k, v)
    \/ \E p \in TimePrecision : SerWithTimePrecision(p)
    \/ \E site \in CallSites : SerFromRecord(site)
    \/ Serialize

SerSpec == SerInit /\ [][SerNext]_vars

----------------------------------------------------------------------------
(* Properties *)

InSend(t) == pc[t] \in {"send", "write"}

RECURSIVE Flatten(_)
Flatten(bs) == IF bs = <<>> THEN <<>> ELSE Head(bs) \o Flatten(Tail(bs))

(* message texts in the order the endpoint received them *)
Delivered == LET es == Flatten(wire) IN [i \in 1..Len(es) |-> es[i].fields["message"][2]]

Pos(seq, x) == CHOOSE i \in 1..Len(seq) : seq[i] = x

OutKeys == { out[i][1] : i \in 1..Len(out) }
Optionals == {"module", "file", "line"}
IsSet(r, k) == IsSome(r[k])
CountKey(seq, k) == Cardinality({ i \in 1..Len(seq) : seq[i][1] = k })

(* C1, as claimed: no append call ever returns an error to its caller,     *)
(* whether send succeeds or fails or the lock cannot be acquired.          *)
C1_AppendNeverErr == \A t \in Threads : ret[t] \in {"none", "Ok"}

(* C1, amended: append returns Ok exactly when the lock was acquired and   *)
(* send succeeded; a failed send and a poisoned lock are returned as Err.  *)
C1_AppendReturnsOutcome ==
    \A t \in Threads :
        (pc[t] = "idle" /\ ret[t] # "none") =>
            /\ (sendRes[t] = "Ok") <=> (ret[t] = "Ok")
            /\ (sendRes[t] = "Err") <=> (ret[t] = "Err(send)")
            /\ (sendRes[t] = "none") <=> (ret[t] = "Err(Mutex lock failed)")
            /\ (ret[t] = "Err(Mutex lock failed)") => poisoned

C1_Witness == \E t \in Threads : pc[t] = "idle" /\ ret[t] = "Err(send)"

(* C2: at every instant at most one thread is inside sender.send.          *)
C2_OneSenderAtATime == Cardinality({ t \in Threads : InSend(t) }) <= 1

C2_Witness ==
    \E t, u \in Threads : t # u /\ pc[t] = "write" /\ pc[u] = "lock"

(* C3: serialize emits "@timestamp", then those of "module", "file",       *)
(* "line" that are set, in that order, then "level", then "target", and    *)
(* only after these the entries of fields.                                 *)
C3_FieldOrder ==
    out # <<>> =>
        LET fixed == <<"@timestamp">>
                     \o (IF IsSet(rec, "module") THEN <<"module">> ELSE <<>>)
                     \o (IF IsSet(rec, "file") THEN <<"file">> ELSE <<>>)
                     \o (IF IsSet(rec, "line") THEN <<"line">> ELSE <<>>)
                     \o <<"level", "target">>
            n == Len(fixed)
        IN  /\ Len(out) = n + Len(rec.fields)
            /\ \A i \in 1..n : out[i][1] = fixed[i]
            /\ \A i \in 1..Len(rec.fields) :
                 \E j \in (n + 1)..Len(out) : out[j] = rec.fields[i]
            /\ \A j \in (n + 1)..Len(out) :
                 \E i \in 1..Len(rec.fields) : out[j] = rec.fields[i]

C3_Witness ==
    /\ out # <<>>
    /\ IsSet(rec, "module") /\ ~IsSet(rec, "file") /\ IsSet(rec, "line")
    /\ Len(rec.fields) = 2

(* C4, as claimed: the object's keys are "@timestamp", "level", "target",  *)
(* the set ones of "module", "file", "line", and the keys of fields; an    *)
(* unset optional field is absent from the object, never present as null.  *)
C4_KeySetAndAbsent ==
    out # <<>> =>
        /\ OutKeys = {"@timestamp", "level", "target"}
                     \cup { k \in Optionals : IsSet(rec, k) }
                     \cup FieldKeys(rec.fields)
        /\ \A k \in Optionals : ~IsSet(rec, k) => k \notin OutKeys

(* C4, amended: the same key set; serialize itself emits no entry for an   *)
(* unset optional field: its key is in the object only when fields holds   *)
(* an entry of that name, emitted once and as fields holds it.             *)
C4_KeySetAndNotEmitted ==
    out # <<>> =>
        /\ OutKeys = {"@timestamp", "level", "target"}
                     \cup { k \in Optionals : IsSet(rec, k) }
                     \cup FieldKeys(rec.fields)
        /\ \A k \in Optionals :
             ~IsSet(rec, k) =>
                /\ k \in OutKeys <=> k \in FieldKeys(rec.fields)
                /\ CountKey(out, k) = CountKey(rec.fields, k)
                /\ \A i \in 1..Len(out) :
                     out[i][1] = k => \E j \in 1..Len(rec.fields) : rec.fields[j] = out[i]

C4_Witness ==
    /\ out # <<>>
    /\ ~IsSet(rec, "module") /\ IsSet(rec, "file") /\ ~IsSet(rec, "line")
    /\ "module" \notin OutKeys
    /\ "line" \in FieldKeys(rec.fields)

(* some field of the event holds the value *)
Carries(e, v) == \E k \in DOMAIN e.fields : e.fields[k] = v

(* C5: the event append hands to the sender carries the call's level and   *)
(* target, its module path, file and line when supplied, a timestamp of    *)
(* now, and fields["message"] equal to the rendered message.               *)
C5_EventCarriesCall ==
    \A t \in Threads :
        pc[t] \in {"lock", "send"} =>
            LET e == event[t]
                r == cur[t]
            IN  /\ e.timestamp <= now
                /\ "message" \in DOMAIN e.fields
                /\ e.fields["message"] = JStr(r.args)
                /\ IsSome(r.module_path) => Carries(e, JStr(Unwrap(r.module_path)))
                /\ IsSome(r.file) => Carries(e, JStr(Unwrap(r.file)))
                /\ IsSome(r.line) => Carries(e, JNum(Unwrap(r.line)))
                /\ Carries(e, JStr(r.target))
                /\ Carries(e, JStr(LevelStr(r.level))) \/ Carries(e, JStr(r.level))

(* the oldest buffered event has waited the configured lifetime *)
Overdue ==
    /\ phase = "built"
    /\ IsSome(builder.buffer_lifetime)
    /\ sender.buffer # <<>>
    /\ now - bufferedSince >= Unwrap(builder.buffer_lifetime)

(* C6: built with buffer_lifetime = Some(d), a buffer whose oldest event   *)
(* has waited d is eventually flushed, whatever the buffer_size.           *)
C6_LifetimeFlush == Overdue ~> (sender.buffer = <<>>)

(* C7: built with buffer_size = Some(T), T >= 1: after N appends exactly   *)
(* N div T threshold flushes have occurred, each draining the whole        *)
(* buffer, and the buffer holds fewer than T events once append returned.  *)
C7_FlushPerThreshold ==
    (phase = "built" /\ IsSome(builder.buffer_size) /\ Unwrap(builder.buffer_size) >= 1) =>
        LET T == Unwrap(builder.buffer_size)
            N == Len(appended)
        IN  /\ flushes = N \div T
            /\ Len(sender.buffer) = N % T
            /\ lockHolder = 0 => Len(sender.buffer) < T

C7_Witness ==
    /\ builder.buffer_size = Some(2)
    /\ Len(appended) = 3
    /\ flushes = 1
    /\ lockHolder = 0

(* C8: events reach the endpoint in the order they entered the buffer,     *)
(* within a batch and across batches.                                      *)
C8_DeliveredInBufferOrder ==
    \A i, j \in 1..Len(Delivered) :
        i < j => Pos(appended, Delivered[i]) < Pos(appended, Delivered[j])

C8_Witness ==
    /\ Len(wire) >= 2
    /\ Len(appended) >= 2
    /\ appended[1] = ToString(2)
    /\ appended[2] = ToString(1)

(* a threshold accepts the levels at least as severe as itself *)
Accepts(threshold, l) ==
    IsSome(threshold) => LevelRank(l) <= LevelRank(Unwrap(threshold))

(* C9: with level = Some(L) no record less severe than L is handed to the  *)
(* sender.                                                                 *)
C9_LevelThreshold ==
    [][\A t \in Threads :
         (pc[t] = "send" /\ Len(appended') > Len(appended) /\ pc'[t] # "send")
            => Accepts(builder.level, cur[t].level)]_vars

(* C10: an explicit flush writes nothing and leaves the sender's buffer    *)
(* and connection as they were, in every state.                            *)
C10_FlushNoEffect ==
    [][flushCalls' # flushCalls =>
         UNCHANGED <<sender, wire, lockHolder, poisoned, pc, batch, appended, flushes>>]_vars

C10_Witness == flushCalls >= 1 /\ Len(sender.buffer) >= 1

====
